---- MODULE Spec2Model ----
(***************************************************************************)
(* A model of drag_mouse.py: parse_file (the motions-file parser),         *)
(* run_single_hold (the executor that holds one button down through all    *)
(* steps) and main (parse, start delay, run, status line, exit status).    *)
(*                                                                         *)
(* Text is modelled character by character: a line is a sequence of        *)
(* one-character strings without its line terminator, a file a sequence of *)
(* lines.  Real numbers are held in thousandths (1.5 s is 1500).           *)
(***************************************************************************)
EXTENDS Integers, Sequences, FiniteSets, TLC

(***************************************************************************)
(* Bounds of the model.                                                    *)
(***************************************************************************)
\* longest file (in lines) of the parser specification
MaxParseLines == 2
\* longest file (in lines) of the whole-program specification
MaxLines == 3

(***************************************************************************)
(* Program constants.                                                      *)
(***************************************************************************)
\* argparse default of --default-duration (1.5 s), in thousandths
DefaultDuration == 1500
\* argparse default of --start-delay (2.0 s), in thousandths
DefaultStartDelay == 2000

(***************************************************************************)
(* Characters and str methods.                                             *)
(***************************************************************************)
Digits == {"0", "1", "2", "3", "4", "5", "6", "7", "8", "9"}

DigitVal(c) ==
  CASE c = "0" -> 0 [] c = "1" -> 1 [] c = "2" -> 2 [] c = "3" -> 3
    [] c = "4" -> 4 [] c = "5" -> 5 [] c = "6" -> 6 [] c = "7" -> 7
    [] c = "8" -> 8 [] c = "9" -> 9

\* \s of the regular expression and the whitespace of str.strip / str.split
IsWs(c) == c \in {" ", "\t"}

\* str.upper on one character, for the letters the model's lines use
UpperChar(c) ==
  CASE c = "s" -> "S" [] c = "l" -> "L" [] c = "e" -> "E" [] c = "p" -> "P"
    [] c = "y" -> "Y" [] c = "x" -> "X" [] OTHER -> c

Upper(s) == [k \in 1..Len(s) |-> UpperChar(s[k])]

RECURSIVE LStrip(_)
LStrip(s) == IF s # <<>> /\ IsWs(Head(s)) THEN LStrip(Tail(s)) ELSE s

RECURSIVE RStrip(_)
RStrip(s) ==
  IF s # <<>> /\ IsWs(s[Len(s)]) THEN RStrip(SubSeq(s, 1, Len(s) - 1)) ELSE s

\* str.strip()
Strip(s) == RStrip(LStrip(s))

\* str.startswith(p)
StartsWith(s, p) == Len(s) >= Len(p) /\ SubSeq(s, 1, Len(p)) = p

\* str.split(): maximal runs of non-whitespace characters
RECURSIVE SplitFrom(_, _, _)
SplitFrom(s, cur, acc) ==
  IF s = <<>> THEN (IF cur = <<>> THEN acc ELSE Append(acc, cur))
  ELSE IF IsWs(Head(s))
       THEN SplitFrom(Tail(s), <<>>, IF cur = <<>> THEN acc ELSE Append(acc, cur))
       ELSE SplitFrom(Tail(s), Append(cur, Head(s)), acc)

Split(s) == SplitFrom(s, <<>>, <<>>)

\* length of the longest prefix of s made of digits
RECURSIVE DigitPrefixLen(_)
DigitPrefixLen(s) ==
  IF s # <<>> /\ Head(s) \in Digits THEN 1 + DigitPrefixLen(Tail(s)) ELSE 0

Drop(s, n) == SubSeq(s, n + 1, Len(s))
Take(s, n) == SubSeq(s, 1, n)

\* value of a non-empty digit string
RECURSIVE DigitsVal(_)
DigitsVal(d) ==
  IF d = <<>> THEN 0 ELSE 10 * DigitsVal(Take(d, Len(d) - 1)) + DigitVal(d[Len(d)])

\* int(text) for text matching -?\d+
IntVal(t) == IF Head(t) = "-" THEN 0 - DigitsVal(Tail(t)) ELSE DigitsVal(t)

\* the fraction digits f as thousandths (digits after the third are dropped)
FracVal(f) ==
  LET p == Take(f \o <<"0", "0", "0">>, 3) IN DigitsVal(p)

(***************************************************************************)
(* float(text): an optional sign, then digits with an optional fraction    *)
(* ("1", "1.", "1.5") or a fraction alone (".5").  Exponents, inf and nan  *)
(* are outside the model's alphabet.                                       *)
(***************************************************************************)
Unsigned(t) == IF t # <<>> /\ Head(t) \in {"-", "+"} THEN Tail(t) ELSE t

IsFloatLiteral(t) ==
  LET u == Unsigned(t)
      n == DigitPrefixLen(u)
      r == Drop(u, n)
  IN  \/ n > 0 /\ r = <<>>
      \/ /\ r # <<>> /\ Head(r) = "."
         /\ DigitPrefixLen(Tail(r)) = Len(r) - 1
         /\ n + Len(r) - 1 > 0

FloatVal(t) ==
  LET u == Unsigned(t)
      n == DigitPrefixLen(u)
      r == Drop(u, n)
      m == 1000 * DigitsVal(Take(u, n)) + (IF r = <<>> THEN 0 ELSE FracVal(Tail(r)))
  IN  IF Head(t) = "-" THEN 0 - m ELSE m

(***************************************************************************)
(* drag_line_re, matched from the left.  Each scanner takes the text still *)
(* to match and returns whether its piece matched, the piece and the rest. *)
(***************************************************************************)
NoMatch == [ok |-> FALSE, text |-> <<>>, rest |-> <<>>]

\* (-?\d+)
ScanInt(s) ==
  LET neg == s # <<>> /\ Head(s) = "-"
      b   == IF neg THEN Tail(s) ELSE s
      n   == DigitPrefixLen(b)
      k   == IF neg THEN n + 1 ELSE n
  IN  IF n = 0 THEN NoMatch
      ELSE [ok |-> TRUE, text |-> Take(s, k), rest |-> Drop(s, k)]

\* \s* lit \s*
ScanSep(s, lit) ==
  LET a == LStrip(s)
  IN  IF StartsWith(a, lit)
      THEN [ok |-> TRUE, text |-> lit, rest |-> LStrip(Drop(a, Len(lit)))]
      ELSE NoMatch

\* ([0-9]*\.?[0-9]+) followed by \s*$ : s is all that is left of the line
ScanDuration(s) ==
  LET t == RStrip(s)
      n == DigitPrefixLen(t)
      r == Drop(t, n)
  IN  IF \/ n > 0 /\ r = <<>>
         \/ /\ r # <<>> /\ Head(r) = "."
            /\ Len(r) > 1 /\ DigitPrefixLen(Tail(r)) = Len(r) - 1
      THEN [ok |-> TRUE, text |-> t, rest |-> <<>>]
      ELSE NoMatch

\* the state of a match in progress: the groups captured so far (g), the
\* optional fifth group (dur, <<>> for None) and the text still to match
NoGroups == [ok |-> FALSE, g |-> <<>>, dur |-> <<>>, rest |-> <<>>]

\* ^\s* : the start of a match
MatchStart(line) == [ok |-> TRUE, g |-> <<>>, dur |-> <<>>, rest |-> LStrip(line)]

\* the match so far, then one captured group
ThenGroup(st, r) ==
  IF st.ok /\ r.ok
  THEN [ok |-> TRUE, g |-> Append(st.g, r.text), dur |-> <<>>, rest |-> r.rest]
  ELSE NoGroups

\* the match so far, then (-?\d+)
ThenInt(st) == ThenGroup(st, IF st.ok THEN ScanInt(st.rest) ELSE NoMatch)

\* the match so far, then \s* lit \s*
ThenSepOf(st, r) ==
  IF st.ok /\ r.ok
  THEN [ok |-> TRUE, g |-> st.g, dur |-> <<>>, rest |-> r.rest]
  ELSE NoGroups

ThenSep(st, lit) == ThenSepOf(st, IF st.ok THEN ScanSep(st.rest, lit) ELSE NoMatch)

\* the match so far, then (?:\s*,\s*([0-9]*\.?[0-9]+))?\s*$ with d the
\* outcome of the optional group
ThenOptionalDuration(st, d) ==
  IF ~st.ok THEN NoGroups
  ELSE IF RStrip(st.rest) = <<>>
       THEN [ok |-> TRUE, g |-> st.g, dur |-> <<>>, rest |-> <<>>]
  ELSE IF d.ok
       THEN [ok |-> TRUE, g |-> st.g, dur |-> <<d.text>>, rest |-> <<>>]
  ELSE NoGroups

\* ([0-9]*\.?[0-9]+)\s*$ after the separator match c
OptionalDuration(c) == IF c.ok THEN ScanDuration(c.rest) ELSE NoMatch

ThenDuration(st) ==
  ThenOptionalDuration(st, OptionalDuration(ThenSep(st, <<",">>)))

\* drag_line_re.match(line): g is groups 1-4, dur is group 5 (<<>> is None)
DragMatch(line) ==
  ThenDuration(
    ThenInt(ThenSep(ThenInt(ThenSep(ThenInt(ThenSep(ThenInt(
      MatchStart(line)), <<",">>)), <<"-", ">">>)), <<",">>)))

(***************************************************************************)
(* parse_file.  A step is ("DRAG",(x1,y1,x2,y2,dur|None)) or               *)
(* ("SLEEP",seconds); dur is <<>> for None and <<d>> otherwise.            *)
(***************************************************************************)
DragStep(x1, y1, x2, y2, dur) ==
  [kind |-> "DRAG", x1 |-> x1, y1 |-> y1, x2 |-> x2, y2 |-> y2, dur |-> dur,
   seconds |-> 0]

SleepStep(seconds) ==
  [kind |-> "SLEEP", x1 |-> 0, y1 |-> 0, x2 |-> 0, y2 |-> 0, dur |-> <<>>,
   seconds |-> seconds]

SleepKeyword == <<"S", "L", "E", "E", "P">>

\* line.upper().startswith("SLEEP")
IsSleepLine(line) == StartsWith(Upper(line), SleepKeyword)

\* not line or line.startswith("#")
IsSkipped(line) == line = <<>> \/ Head(line) = "#"

\* enumerate(f, start=1): the number of the k-th physical line
\* (variant: enumerate(f) without start=1)
LineNumberFromZero(k) == k - 1

LineNumber(k) == k

NoError == [line |-> 0, reason |-> "", text |-> <<>>]

\* "Invalid SLEEP seconds: {parts[1]}"
SleepSecondsText(line) == Split(line)[2]

Skip == [out |-> "skip", step |-> SleepStep(0), reason |-> "", text |-> <<>>]

Raise(reason, text) ==
  [out |-> "error", step |-> SleepStep(0), reason |-> reason, text |-> text]

Emit(step) == [out |-> "step", step |-> step, reason |-> "", text |-> <<>>]

\* the SLEEP branch, with parts = line.split()
ParseSleep(line, parts) ==
  IF Len(parts) # 2 THEN Raise("SLEEP requires one numeric value", line)
  ELSE IF ~IsFloatLiteral(parts[2])
       THEN Raise("Invalid SLEEP seconds", SleepSecondsText(line))
       ELSE Emit(SleepStep(FloatVal(parts[2])))

\* the drag branch, with m = drag_line_re.match(line)
ParseDrag(line, m) ==
  IF ~m.ok THEN Raise("Invalid line", line)
  ELSE Emit(DragStep(IntVal(m.g[1]), IntVal(m.g[2]), IntVal(m.g[3]),
                     IntVal(m.g[4]),
                     IF m.dur = <<>> THEN <<>> ELSE <<FloatVal(m.dur[1])>>))

\* the body of the for loop on line = raw.strip()
ParseStripped(line) ==
  IF IsSkipped(line) THEN Skip
  ELSE IF IsSleepLine(line) THEN ParseSleep(line, Split(line))
  ELSE ParseDrag(line, DragMatch(line))

\* The outcome of one iteration of the for loop on the physical line raw:
\* skip (continue without a step), step (append), or error (raise).
ParseLine(raw) == ParseStripped(Strip(raw))

\* The for loop from physical line k on, with the steps appended so far;
\* from[j] is the physical line that produced steps[j].  An error discards
\* the steps: the exception leaves parse_file without a return value.
RECURSIVE ParseFrom(_, _, _, _)
RECURSIVE ParseStep(_, _, _, _, _)
ParseStep(f, k, acc, from, r) ==
  CASE r.out = "skip"  -> ParseFrom(f, k + 1, acc, from)
    [] r.out = "step"  -> ParseFrom(f, k + 1, Append(acc, r.step), Append(from, k))
    [] r.out = "error" ->
         [ok |-> FALSE, steps |-> <<>>, from |-> <<>>,
          err |-> [line |-> LineNumber(k), reason |-> r.reason, text |-> r.text]]

ParseFrom(f, k, acc, from) ==
  IF k > Len(f) THEN [ok |-> TRUE, steps |-> acc, from |-> from, err |-> NoError]
  ELSE ParseStep(f, k, acc, from, ParseLine(f[k]))

\* parse_file(path) on a readable file with the lines f
ParseFile(f) == ParseFrom(f, 1, <<>>, <<>>)

(***************************************************************************)
(* The lines the model's files are made of.                                *)
(***************************************************************************)
\* ""
L_blank == <<>>

\* " \t"
L_space == <<" ", "\t">>

\* "# x"
L_comment == <<"#", " ", "x">>

\* "SLEEP 1"
L_sleep == <<"S", "L", "E", "E", "P", " ", "1">>

\* " sleep .5 "
L_sleepLower == <<" ", "s", "l", "e", "e", "p", " ", ".", "5", " ">>

\* "SLEEP"
L_sleepNoArg == <<"S", "L", "E", "E", "P">>

\* "Sleep 1 2"
L_sleepTwoArgs == <<"S", "l", "e", "e", "p", " ", "1", " ", "2">>

\* "  SLEEP x"
L_sleepBadArg == <<" ", " ", "S", "L", "E", "E", "P", " ", "x">>

\* "SLEEPY 1"
L_sleepy == <<"S", "L", "E", "E", "P", "Y", " ", "1">>

\* "SLEEP -1"
L_sleepNeg == <<"S", "L", "E", "E", "P", " ", "-", "1">>

\* "1,2 -> 3,4"
L_drag == <<"1", ",", "2", " ", "-", ">", " ", "3", ",", "4">>

\* "3,4 -> 5,6,1.0"
L_dragNext == <<"3", ",", "4", " ", "-", ">", " ", "5", ",", "6", ",", "1", ".", "0">>

\* " -1 , 2->3,-4 , .5 "
L_dragFar == <<" ", "-", "1", " ", ",", " ", "2", "-", ">", "3", ",", "-", "4", " ", ",", " ", ".", "5", " ">>

\* " 1,2 - 3,4"
L_noArrow == <<" ", "1", ",", "2", " ", "-", " ", "3", ",", "4">>

\* "1,2,3 -> 4,5"
L_extraComma == <<"1", ",", "2", ",", "3", " ", "-", ">", " ", "4", ",", "5">>

\* "x,2 -> 3,4"
L_nonInt == <<"x", ",", "2", " ", "-", ">", " ", "3", ",", "4">>

\* "1,2 -> 3,4,1."
L_durDot == <<"1", ",", "2", " ", "-", ">", " ", "3", ",", "4", ",", "1", ".">>

\* lines of the parser specification's files
ParseLines ==
  {L_blank, L_space, L_comment, L_sleep, L_sleepLower, L_sleepNoArg,
   L_sleepTwoArgs, L_sleepBadArg, L_sleepy, L_sleepNeg, L_drag, L_dragNext,
   L_dragFar, L_noArrow, L_extraComma, L_nonInt, L_durDot}

\* lines of the whole-program specification's files
MainLines ==
  {L_comment, L_sleep, L_sleepNeg, L_drag, L_dragNext, L_dragFar, L_noArrow}

FilesOf(lines, n) == UNION {[1..k -> lines] : k \in 0..n}

(***************************************************************************)
(* State.                                                                  *)
(***************************************************************************)
VARIABLES
  file,        \* the lines of the motions file
  readable,    \* whether open() succeeds
  opts,        \* the argparse namespace
  pc,          \* position of the program
  steps,       \* the list parse_file returned
  from,        \* from[j]: the physical line that produced steps[j]
  err,         \* what the parse exception carries
  btn,         \* run_single_hold's btn
  i,           \* number of steps the for loop has taken up
  current,     \* (current_x, current_y)
  seg_index,   \* seg_index
  exc,         \* the exception in flight, "none" if none
  log,         \* backend calls, sleeps and warnings, in order of issue
  buttonDown,  \* the device: the button is physically down
  waited,      \* the start delay has been slept
  statusLine,  \* the last status line printed
  exitStatus,  \* "running", "zero" or "nonzero"
  stepBase,    \* Len(log) when the current step was taken up
  curBefore,   \* current when the current step was taken up
  enteredTry,  \* control has entered the try statement
  finallyCut   \* a KeyboardInterrupt ended the finally clause before mouseUp

vars == <<file, readable, opts, pc, steps, from, err, btn, i, current,
          seg_index, exc, log, buttonDown, waited, statusLine, exitStatus,
          stepBase, curBefore, enteredTry, finallyCut>>

parseVars == <<steps, from, err>>
runVars   == <<btn, i, current, seg_index, stepBase, curBefore>>
histVars  == <<enteredTry, finallyCut>>
inputVars == <<file, readable, opts>>

\* --between-delay values of the model, in thousandths
BetweenDelays == {0, 100}

Buttons == {"left", "middle"}

Options ==
  [default_duration : {DefaultDuration}, button : Buttons,
   start_delay : {DefaultStartDelay}, between_delay : BetweenDelays]

(***************************************************************************)
(* Log entries.                                                            *)
(***************************************************************************)
Entry(op, x, y, dur, tween, b, secs) ==
  [op |-> op, x |-> x, y |-> y, dur |-> dur, tween |-> tween, btn |-> b,
   secs |-> secs, held |-> buttonDown]

\* pyautogui.moveTo(x, y)
MoveToStartCall(x, y) == Entry("moveTo", x, y, <<>>, FALSE, "", 0)
\* pyautogui.moveTo(sx, sy, duration=0)
RepositionCall(x, y) == Entry("moveTo", x, y, <<0>>, FALSE, "", 0)
\* pyautogui.moveTo(ex, ey, duration=duration, tween=pyautogui.easeInOutQuad)
TimedMoveCall(x, y, d) == Entry("moveTo", x, y, <<d>>, TRUE, "", 0)
\* pyautogui.mouseDown(button=btn)
MouseDownCall(b) == Entry("mouseDown", 0, 0, <<>>, FALSE, b, 0)
\* pyautogui.mouseUp(button=btn)
MouseUpCall(b) == Entry("mouseUp", 0, 0, <<>>, FALSE, b, 0)
\* time.sleep(secs) inside run_single_hold
SleepCall(secs) == Entry("sleep", 0, 0, <<>>, FALSE, "", secs)
\* print("[WARN] Segment start ... Will draw a connector.")
WarnPrint(x, y) == Entry("warn", x, y, <<>>, FALSE, "", 0)

(***************************************************************************)
(* How a call into the backend ends.  The backend raises FailSafeException *)
(* in place of acting; a KeyboardInterrupt can cut a call short before or  *)
(* after its effect on the device.                                         *)
(***************************************************************************)
Outcomes == {"return", "FailSafeException", "KeyboardInterrupt"}

\* the button after a press (down = TRUE) or release (down = FALSE) call
ButtonAfter(o, down) ==
  CASE o = "return"            -> {down}
    [] o = "FailSafeException" -> {buttonDown}
    [] o = "KeyboardInterrupt" -> {buttonDown, down}

\* time.sleep raises ValueError on a negative length
SleepAccepts(secs) == secs >= 0

(***************************************************************************)
(* run_single_hold helpers.                                                *)
(***************************************************************************)
DragIndexes(ss) == {k \in 1..Len(ss) : ss[k].kind = "DRAG"}

HasDrag(ss) == DragIndexes(ss) # {}

\* next((p for (k, p) in steps if k == "DRAG"), None), when there is one
\* (variant: the last DRAG step is taken instead of the first)
FirstDragLast(ss) == ss[CHOOSE k \in DragIndexes(ss) : \A j \in DragIndexes(ss) : j <= k]

FirstDrag(ss) == ss[CHOOSE k \in DragIndexes(ss) : \A j \in DragIndexes(ss) : k <= j]

\* btn = button.lower(); if btn not in ("left","right","middle"): btn = "left"
NormButton(b) == IF b \in {"left", "right", "middle"} THEN b ELSE "left"

\* duration = float(dur) if dur is not None else default_duration
Duration(st, dflt) == IF st.dur # <<>> THEN st.dur[1] ELSE dflt

\* (sx, sy) != (current_x, current_y)
\* (variant: the test is left out and no connector is ever drawn)
NeverDiscontinuous(st, cur) == FALSE

Discontinuous(st, cur) == <<st.x1, st.y1>> # cur

(***************************************************************************)
(* Initial states.                                                         *)
(***************************************************************************)
InitWith(files) ==
  /\ readable \in BOOLEAN
  /\ file \in (IF readable THEN files ELSE {<<>>})
  /\ opts \in Options
  /\ pc = "parse"
  /\ steps = <<>> /\ from = <<>> /\ err = NoError
  /\ btn = "" /\ i = 0 /\ current = <<0, 0>> /\ seg_index = 0
  /\ exc = "none" /\ log = <<>> /\ buttonDown = FALSE /\ waited = FALSE
  /\ statusLine = "none" /\ exitStatus = "running"
  /\ stepBase = 0 /\ curBefore = <<0, 0>>
  /\ enteredTry = FALSE /\ finallyCut = FALSE

Init == InitWith(FilesOf(MainLines, MaxLines))

InitParse == InitWith(FilesOf(ParseLines, MaxParseLines))

(***************************************************************************)
(* main: parse.                                                            *)
(***************************************************************************)
\* steps = parse_file(args.file) returns
ParseOk ==
  /\ pc = "parse" /\ readable /\ ParseFile(file).ok
  /\ steps' = ParseFile(file).steps
  /\ from' = ParseFile(file).from
  /\ pc' = "start_delay"
  /\ UNCHANGED <<histVars, inputVars, err, runVars, exc, log, buttonDown, waited,
                 statusLine, exitStatus>>

\* (variant: the handler prints the error and forgets sys.exit(1))
ParseFailNoExit ==
  /\ pc = "parse" /\ (~readable \/ ~ParseFile(file).ok)
  /\ err' = IF readable THEN ParseFile(file).err
            ELSE [line |-> 0, reason |-> "IOError", text |-> <<>>]
  /\ statusLine' = "Error"
  /\ pc' = "start_delay"
  /\ UNCHANGED <<histVars, inputVars, steps, from, runVars, exc, log,
                 buttonDown, waited, exitStatus>>

\* parse_file raises; except Exception: print("Error:", e); sys.exit(1)
ParseFail ==
  /\ pc = "parse" /\ (~readable \/ ~ParseFile(file).ok)
  /\ err' = IF readable THEN ParseFile(file).err
            ELSE [line |-> 0, reason |-> "IOError", text |-> <<>>]
  /\ exc' = IF readable THEN "ValueError" ELSE "OSError"
  /\ statusLine' = "Error"
  /\ exitStatus' = "nonzero"
  /\ pc' = "exited"
  /\ UNCHANGED <<histVars, inputVars, steps, from, runVars, log, buttonDown, waited>>

NextParse == ParseOk \/ ParseFail

SpecParse == InitParse /\ [][NextParse]_vars

(***************************************************************************)
(* main: start delay, and a Ctrl+C while it is slept (no try around it).   *)
(***************************************************************************)
\* time.sleep(args.start_delay)
StartDelay ==
  /\ pc = "start_delay"
  /\ waited' = TRUE
  /\ pc' = "call"
  /\ UNCHANGED <<histVars, inputVars, parseVars, runVars, exc, log, buttonDown,
                 statusLine, exitStatus>>

\* KeyboardInterrupt outside main's try: the interpreter ends with a traceback
InterruptStartDelay ==
  /\ pc = "start_delay"
  /\ exc' = "KeyboardInterrupt"
  /\ exitStatus' = "nonzero"
  /\ pc' = "exited"
  /\ UNCHANGED <<histVars, inputVars, parseVars, runVars, log, buttonDown, waited,
                 statusLine>>

(***************************************************************************)
(* run_single_hold.                                                        *)
(***************************************************************************)
\* (variant: the early return runs the release all the same)
NoDragReleasing ==
  /\ pc = "call" /\ ~HasDrag(steps)
  /\ log' = Append(log, MouseUpCall(NormButton(opts.button)))
  /\ pc' = "returned"
  /\ UNCHANGED <<histVars, inputVars, parseVars, runVars, exc, buttonDown,
                 waited, statusLine, exitStatus>>

\* first_drag is None: print("No DRAG steps found in file."); return
NoDrag ==
  /\ pc = "call" /\ ~HasDrag(steps)
  /\ pc' = "returned"
  /\ UNCHANGED <<histVars, inputVars, parseVars, runVars, exc, log, buttonDown, waited,
                 statusLine, exitStatus>>

\* x1, y1 = start of the first drag; btn normalised
Begin ==
  /\ pc = "call" /\ HasDrag(steps)
  /\ btn' = NormButton(opts.button)
  /\ pc' = "move_start"
  /\ UNCHANGED <<histVars, inputVars, parseVars, i, current, seg_index, stepBase,
                 curBefore, exc, log, buttonDown, waited, statusLine, exitStatus>>

\* pyautogui.moveTo(x1, y1), before the try statement
MoveToStart ==
  /\ pc = "move_start"
  /\ \E o \in Outcomes :
       /\ log' = Append(log, MoveToStartCall(FirstDrag(steps).x1, FirstDrag(steps).y1))
       /\ IF o = "return" THEN pc' = "press" /\ exc' = exc
                          ELSE pc' = "raised" /\ exc' = o
  /\ UNCHANGED <<histVars, inputVars, parseVars, runVars, buttonDown, waited, statusLine,
                 exitStatus>>

\* pyautogui.mouseDown(button=btn), before the try statement
Press ==
  /\ pc = "press"
  /\ \E o \in Outcomes :
       /\ log' = Append(log, MouseDownCall(btn))
       /\ buttonDown' \in ButtonAfter(o, TRUE)
       /\ IF o = "return" THEN pc' = "pressed" /\ exc' = exc
                          ELSE pc' = "raised" /\ exc' = o
  /\ UNCHANGED <<histVars, inputVars, parseVars, runVars, waited, statusLine, exitStatus>>

\* try: current_x, current_y = x1, y1; seg_index = 0
EnterTry ==
  /\ pc = "pressed"
  /\ current' = <<FirstDrag(steps).x1, FirstDrag(steps).y1>>
  /\ seg_index' = 0
  /\ pc' = "loop"
  /\ enteredTry' = TRUE
  /\ UNCHANGED <<finallyCut, inputVars, parseVars, btn, i, stepBase, curBefore, exc, log,
                 buttonDown, waited, statusLine, exitStatus>>

\* for kind, payload in steps: the next step is taken up
NextStep ==
  /\ pc = "loop" /\ i < Len(steps)
  /\ i' = i + 1
  /\ stepBase' = Len(log)
  /\ curBefore' = current
  /\ pc' = IF steps[i + 1].kind = "SLEEP" THEN "sleep" ELSE "drag"
  /\ UNCHANGED <<histVars, inputVars, parseVars, btn, current, seg_index, exc, log,
                 buttonDown, waited, statusLine, exitStatus>>

\* the for loop is exhausted: control falls into the finally clause
LoopDone ==
  /\ pc = "loop" /\ i = Len(steps)
  /\ pc' = "finally"
  /\ UNCHANGED <<histVars, inputVars, parseVars, runVars, exc, log, buttonDown, waited,
                 statusLine, exitStatus>>

\* kind == "SLEEP": time.sleep(seconds); continue
DoSleep ==
  /\ pc = "sleep" /\ SleepAccepts(steps[i].seconds)
  /\ log' = Append(log, SleepCall(steps[i].seconds))
  /\ pc' = "loop"
  /\ UNCHANGED <<histVars, inputVars, parseVars, runVars, exc, buttonDown, waited,
                 statusLine, exitStatus>>

\* kind == "SLEEP": time.sleep(seconds) raises ValueError
SleepRejected ==
  /\ pc = "sleep" /\ ~SleepAccepts(steps[i].seconds)
  /\ exc' = "ValueError"
  /\ pc' = "finally"
  /\ UNCHANGED <<histVars, inputVars, parseVars, runVars, log, buttonDown, waited,
                 statusLine, exitStatus>>

\* DRAG: the discontinuity test and its warning
DragStart ==
  /\ pc = "drag"
  /\ IF Discontinuous(steps[i], current)
     THEN /\ log' = Append(log, WarnPrint(steps[i].x1, steps[i].y1))
          /\ pc' = "reposition"
     ELSE /\ log' = log
          /\ pc' = "move"
  /\ UNCHANGED <<histVars, inputVars, parseVars, runVars, exc, buttonDown, waited,
                 statusLine, exitStatus>>

\* pyautogui.moveTo(sx, sy, duration=0)
Reposition ==
  /\ pc = "reposition"
  /\ \E o \in Outcomes :
       /\ log' = Append(log, RepositionCall(steps[i].x1, steps[i].y1))
       /\ IF o = "return" THEN pc' = "move" /\ exc' = exc
                          ELSE pc' = "finally" /\ exc' = o
  /\ UNCHANGED <<histVars, inputVars, parseVars, runVars, buttonDown, waited, statusLine,
                 exitStatus>>

\* seg_index += 1; pyautogui.moveTo(ex, ey, duration, tween); current = end
Move ==
  /\ pc = "move"
  /\ seg_index' = seg_index + 1
  /\ \E o \in Outcomes :
       /\ log' = Append(log, TimedMoveCall(steps[i].x2, steps[i].y2,
                                           Duration(steps[i], opts.default_duration)))
       /\ IF o = "return"
          THEN pc' = "between" /\ exc' = exc
               /\ current' = <<steps[i].x2, steps[i].y2>>
          ELSE pc' = "finally" /\ exc' = o /\ current' = current
  /\ UNCHANGED <<histVars, inputVars, parseVars, btn, i, stepBase, curBefore, buttonDown,
                 waited, statusLine, exitStatus>>

\* if between_delay > 0: time.sleep(between_delay)
Between ==
  /\ pc = "between"
  /\ log' = IF opts.between_delay > 0
            THEN Append(log, SleepCall(opts.between_delay)) ELSE log
  /\ pc' = "loop"
  /\ UNCHANGED <<histVars, inputVars, parseVars, runVars, exc, buttonDown, waited,
                 statusLine, exitStatus>>

\* finally: print("Releasing mouse button."); pyautogui.mouseUp(button=btn)
Release ==
  /\ pc = "finally"
  /\ \E o \in Outcomes :
       /\ log' = Append(log, MouseUpCall(btn))
       /\ buttonDown' \in ButtonAfter(o, FALSE)
       /\ IF o = "return" THEN pc' = "released" /\ exc' = exc
                          ELSE pc' = "raised" /\ exc' = o
  /\ UNCHANGED <<histVars, inputVars, parseVars, runVars, waited, statusLine, exitStatus>>

\* the finally clause ends: return, or re-raise the exception in flight
LeaveFinally ==
  /\ pc = "released"
  /\ pc' = IF exc = "none" THEN "returned" ELSE "raised"
  /\ UNCHANGED <<histVars, inputVars, parseVars, runVars, exc, log, buttonDown, waited,
                 statusLine, exitStatus>>

\* where a KeyboardInterrupt between two calls is inside the try body
TryBody == {"loop", "sleep", "drag", "reposition", "move", "between"}

\* where it is inside run_single_hold but outside the try body
OutsideTry == {"call", "move_start", "press", "pressed", "finally", "released"}

\* where a KeyboardInterrupt raised at position p takes control
\* (variant: the loop is not wrapped in try/finally)
InterruptTargetNoFinally(p) == "raised"

InterruptTarget(p) == IF p \in TryBody THEN "finally" ELSE "raised"

\* Ctrl+C between two calls of run_single_hold
Interrupt ==
  /\ pc \in TryBody \cup OutsideTry
  /\ exc' = "KeyboardInterrupt"
  /\ pc' = InterruptTarget(pc)
  /\ finallyCut' = (finallyCut \/ pc = "finally")
  /\ UNCHANGED <<enteredTry, inputVars, parseVars, runVars, log, buttonDown, waited,
                 statusLine, exitStatus>>

(***************************************************************************)
(* main: what follows the call of run_single_hold.                         *)
(***************************************************************************)
\* print("Done.")
Done ==
  /\ pc = "returned"
  /\ statusLine' = "Done"
  /\ exitStatus' = "zero"
  /\ pc' = "exited"
  /\ UNCHANGED <<histVars, inputVars, parseVars, runVars, exc, log, buttonDown, waited>>

\* except pyautogui.FailSafeException / except KeyboardInterrupt
Aborted ==
  /\ pc = "raised" /\ exc \in {"FailSafeException", "KeyboardInterrupt"}
  /\ statusLine' = IF exc = "FailSafeException" THEN "AbortedFailsafe"
                                                ELSE "AbortedUser"
  /\ exitStatus' = "zero"
  /\ pc' = "exited"
  /\ UNCHANGED <<histVars, inputVars, parseVars, runVars, exc, log, buttonDown, waited>>

\* any other exception leaves main: traceback, non-zero exit status
Uncaught ==
  /\ pc = "raised" /\ exc \notin {"FailSafeException", "KeyboardInterrupt"}
  /\ exitStatus' = "nonzero"
  /\ pc' = "exited"
  /\ UNCHANGED <<histVars, inputVars, parseVars, runVars, exc, log, buttonDown, waited,
                 statusLine>>

Next ==
  \/ ParseOk \/ ParseFail \/ StartDelay \/ InterruptStartDelay
  \/ NoDrag \/ Begin \/ MoveToStart \/ Press \/ EnterTry
  \/ NextStep \/ LoopDone \/ DoSleep \/ SleepRejected
  \/ DragStart \/ Reposition \/ Move \/ Between
  \/ Release \/ LeaveFinally \/ Interrupt
  \/ Done \/ Aborted \/ Uncaught

Spec == Init /\ [][Next]_vars

(***************************************************************************)
(* Properties.                                                             *)
(***************************************************************************)
Calls(op) == Cardinality({k \in 1..Len(log) : log[k].op = op})

\* control has left run_single_hold, or the process has ended
Left == pc \in {"returned", "raised", "exited"}

\* run_single_hold has been called
Called == waited

\* C1 (as stated): for any non-empty step sequence passed to
\* run_single_hold, mouseUp is invoked exactly once over the whole run, on
\* every exit path.
C1_ReleaseExactlyOnceAlways ==
  (Called /\ Left /\ steps # <<>>) => Calls("mouseUp") = 1

\* C1 (amended): mouseUp is invoked at most once in any run.  Once control
\* has entered the try statement it is invoked exactly once by the time
\* control leaves run_single_hold, whatever ended the loop, unless a
\* KeyboardInterrupt ends the finally clause before the mouseUp call; in
\* that case, and whenever the try statement is never entered (no DRAG
\* step, or the run ends during the initial move or press), it is not
\* invoked at all.
C1_ReleaseOncePerTry ==
  /\ Calls("mouseUp") <= 1
  /\ (Left /\ enteredTry /\ ~finallyCut) => Calls("mouseUp") = 1
  /\ (~enteredTry \/ finallyCut) => Calls("mouseUp") = 0

\* a run interrupted by Ctrl+C in the middle of the steps, then released
C1_Witness ==
  /\ pc = "exited" /\ exc = "KeyboardInterrupt" /\ enteredTry
  /\ 0 < i /\ i < Len(steps) /\ Calls("mouseUp") = 1
  /\ log[Len(log)].op = "mouseUp"

\* C2: whenever control has left run_single_hold or the process has
\* finished, the button is not down.
C2_ButtonNeverStuck == Left => ~buttonDown

\* C3: with no DRAG step (empty list or SLEEP steps only) run_single_hold
\* issues no press, release or move and performs none of the sleeps.
C3_NoDragNoAction ==
  (pc # "parse" /\ ~HasDrag(steps)) => (log = <<>> /\ ~buttonDown)

\* SLEEP steps only: the run is over and nothing was done
C3_Witness ==
  /\ pc = "exited" /\ statusLine = "Done" /\ waited
  /\ steps # <<>> /\ ~HasDrag(steps) /\ log = <<>>

\* the start of the DRAG step of least index
C4_StartPoint ==
  LET k == CHOOSE k \in DragIndexes(steps) : \A j \in DragIndexes(steps) : k <= j
  IN  <<steps[k].x1, steps[k].y1>>

\* C4: with a DRAG step, the log starts with the move to the first DRAG's
\* start (button up) followed by the one press; every entry after the press
\* is issued with the button down; a release is the last entry; the press
\* has happened once any step is taken up or the run returns.
C4_HeldThroughout ==
  HasDrag(steps) =>
    /\ Calls("mouseDown") <= 1
    /\ \A k \in 1..Len(log) :
         /\ (k = 1) <=> (log[k].op = "moveTo" /\ log[k].dur = <<>>)
         /\ (k = 1) => (<<log[k].x, log[k].y>> = C4_StartPoint /\ ~log[k].held)
         /\ (k = 2) <=> (log[k].op = "mouseDown")
         /\ (k = 2) => ~log[k].held
         /\ (k > 2) => log[k].held
         /\ (log[k].op = "mouseUp") => (k = Len(log))
    /\ (i > 0 \/ pc = "returned") => (Calls("mouseDown") = 1 /\ Len(log) >= 2)
    /\ (pc \in TryBody \cup {"finally"}) => buttonDown

\* a SLEEP step placed before the first DRAG has been slept, button down
C4_Witness ==
  /\ pc = "returned" /\ HasDrag(steps) /\ steps[1].kind = "SLEEP"
  /\ Len(log) > 3 /\ log[3].op = "sleep" /\ log[3].held
  /\ log[Len(log)].op = "mouseUp"

\* C5: when parse_file fails, main has printed the error and exited with a
\* non-zero status, and no move, press, release, sleep or start delay has
\* happened.
C5_ParseFailureTouchesNothing ==
  (err # NoError) =>
    /\ pc = "exited" /\ exitStatus = "nonzero" /\ statusLine = "Error"
    /\ log = <<>> /\ ~waited /\ ~buttonDown

\* two valid lines, then a malformed third one
C5_Witness ==
  /\ pc = "exited" /\ err.line = 3 /\ exitStatus = "nonzero"
  /\ ParseLine(file[1]).out = "step" /\ ParseLine(file[2]).out = "step"

\* C6: after a successful parse, a run that ends normally, by failsafe abort
\* or by user interrupt ends with a status line and exit status 0.
C6_StatusLineAndExitZero ==
  (pc = "exited" /\ err = NoError
     /\ exc \in {"none", "FailSafeException", "KeyboardInterrupt"})
  => (exitStatus = "zero"
        /\ statusLine \in {"Done", "AbortedFailsafe", "AbortedUser"})

\* the position tracked when step k is taken up: the end of the last DRAG
\* before it, the first DRAG's start when there is none
C7_Tracked(k) ==
  LET before == {j \in DragIndexes(steps) : j < k}
  IN  IF before = {} THEN C4_StartPoint
      ELSE LET j == CHOOSE j \in before : \A h \in before : h <= j
           IN  <<steps[j].x2, steps[j].y2>>

\* what step i has put in the log, its between-delay sleep left out
C7_Issued ==
  SelectSeq(SubSeq(log, stepBase + 1, Len(log)), LAMBDA e : e.op # "sleep")

\* C7: when a DRAG step has been executed, it found the tracked position
\* the claim names; it issued one warning and one zero-duration move to
\* its start when that differs from the tracked position and neither when
\* they agree, then one timed move to its end; the tracked position is now
\* its end.
C7_ConnectorOnlyOnDiscontinuity ==
  (pc = "loop" /\ i > 0 /\ steps[i].kind = "DRAG") =>
    LET st == steps[i]
        timed == [k \in 1..Len(C7_Issued) |->
                    C7_Issued[k].op = "moveTo" /\ C7_Issued[k].tween]
    IN  /\ curBefore = C7_Tracked(i)
        /\ current = <<st.x2, st.y2>>
        /\ IF <<st.x1, st.y1>> # C7_Tracked(i)
           THEN /\ Len(C7_Issued) = 3
                /\ C7_Issued[1].op = "warn"
                /\ C7_Issued[2].op = "moveTo" /\ C7_Issued[2].dur = <<0>>
                /\ ~C7_Issued[2].tween
                /\ <<C7_Issued[2].x, C7_Issued[2].y>> = <<st.x1, st.y1>>
           ELSE Len(C7_Issued) = 1
        /\ timed[Len(C7_Issued)]
        /\ <<C7_Issued[Len(C7_Issued)].x, C7_Issued[Len(C7_Issued)].y>>
             = <<st.x2, st.y2>>

\* a DRAG after a SLEEP after a DRAG, starting away from the tracked end
C7_Witness ==
  /\ pc = "loop" /\ i = 3 /\ steps[1].kind = "DRAG" /\ steps[2].kind = "SLEEP"
  /\ steps[3].kind = "DRAG"
  /\ <<steps[3].x1, steps[3].y1>> # <<steps[1].x2, steps[1].y2>>
  /\ Len(C7_Issued) = 3 /\ C7_Issued[1].op = "warn"

\* the line splits into exactly SLEEP (any case) and a numeric literal
C8_SleepShape(raw) ==
  LET parts == Split(raw)
  IN  Len(parts) = 2 /\ Upper(parts[1]) = SleepKeyword /\ IsFloatLiteral(parts[2])

\* the first token of the line is the SLEEP keyword (any case)
C8_SleepKeywordLine(raw) ==
  LET parts == Split(raw)
  IN  Len(parts) >= 1 /\ Upper(parts[1]) = SleepKeyword

\* C8: a line yields a Sleep step if and only if it splits into exactly
\* the keyword SLEEP (any case) and a numeric literal; a SLEEP-keyword line
\* of any other shape is a parse error with its 1-based number.
C8_SleepIffKeywordAndNumber ==
  /\ (pc = "start_delay") =>
       \A k \in 1..Len(steps) :
         (steps[k].kind = "SLEEP") <=> C8_SleepShape(file[from[k]])
  /\ (pc = "start_delay") =>
       \A n \in 1..Len(file) :
         C8_SleepKeywordLine(file[n]) => C8_SleepShape(file[n])
  /\ (pc = "exited" /\ readable /\ C8_SleepKeywordLine(file[err.line])) =>
       err.reason \in {"SLEEP requires one numeric value", "Invalid SLEEP seconds"}

\* the first physical line on which the loop raises
C9_FirstMalformed ==
  CHOOSE n \in 1..Len(file) :
    /\ ParseLine(file[n]).out = "error"
    /\ \A h \in 1..(n - 1) : ParseLine(file[h]).out # "error"

ParseReasons ==
  {"Invalid line", "SLEEP requires one numeric value", "Invalid SLEEP seconds"}

\* C9 (as stated): a parse failure carries the 1-based physical number and
\* the raw text of the first malformed line, and no steps are returned.
C9_ErrorCarriesRawLine ==
  (err.reason \in ParseReasons) =>
    /\ err.line = C9_FirstMalformed
    /\ err.text = file[err.line]
    /\ steps = <<>>

\* C9 (amended): a parse failure carries the 1-based physical number of
\* the first malformed line (blank and comment lines counted) and no steps
\* are returned; the text it carries is the line with surrounding
\* whitespace stripped, except that "Invalid SLEEP seconds" carries only
\* the second token of the line.
C9_ErrorCarriesStrippedLine ==
  (err.reason \in ParseReasons) =>
    /\ err.line = C9_FirstMalformed
    /\ err.text = IF err.reason = "Invalid SLEEP seconds"
                  THEN Split(file[err.line])[2]
                  ELSE Strip(file[err.line])
    /\ steps = <<>> /\ from = <<>>

\* a comment line, then a SLEEP line with a non-numeric argument
C9_Witness ==
  /\ pc = "exited" /\ err.line = 2 /\ err.reason = "Invalid SLEEP seconds"
  /\ ParseLine(file[1]).out = "skip" /\ err.text # file[2]

\* what the claim has step k issue: its sleep, or its timed move and the
\* between-delay sleep
C10_Group(k) ==
  IF steps[k].kind = "SLEEP" THEN <<SleepCall(steps[k].seconds)>>
  ELSE <<TimedMoveCall(steps[k].x2, steps[k].y2,
                       IF steps[k].dur # <<>> THEN steps[k].dur[1]
                       ELSE opts.default_duration)>>
       \o (IF opts.between_delay > 0 THEN <<SleepCall(opts.between_delay)>>
           ELSE <<>>)

RECURSIVE C10_Groups(_)
C10_Groups(k) == IF k = 0 THEN <<>> ELSE C10_Groups(k - 1) \o C10_Group(k)

\* the sleeps, timed moves and releases of the log, as issued
C10_Performed ==
  LET keep(e) == e.op \in {"sleep", "mouseUp"} \/ (e.op = "moveTo" /\ e.tween)
      sel == SelectSeq(log, keep)
  IN  [k \in 1..Len(sel) |-> [sel[k] EXCEPT !.held = TRUE]]

\* C10: a run with a DRAG step that no failsafe abort or Ctrl+C interrupts
\* performs every step in file order, each SLEEP for its own seconds, each
\* DRAG as one timed move of the step's or the default duration plus the
\* between-delay sleep, and releases after the last step.
C10_AllStepsInOrder ==
  (Called /\ Left /\ HasDrag(steps)
     /\ exc \notin {"FailSafeException", "KeyboardInterrupt"}) =>
    C10_Performed =
      [k \in 1..(Len(C10_Groups(Len(steps))) + 1) |->
         [(C10_Groups(Len(steps)) \o <<MouseUpCall(btn)>>)[k] EXCEPT !.held = TRUE]]
====
